---------------------------- MODULE Spec2Model ----------------------------
(***************************************************************************)
(* Model of util/codec/bytes.go: the memcomparable group codec             *)
(* (EncodeBytes / DecodeBytes and their descending variants), the compact  *)
(* length-prefixed codec, reverseBytes and reallocBytes.                   *)
(*                                                                         *)
(* A Go slice is a record [arr, bytes, cap]: the identity of its backing   *)
(* array, the bytes visible through it, and its capacity.  A byte is a     *)
(* number in 0..255 and byte arithmetic wraps modulo 256.                  *)
(***************************************************************************)
EXTENDS Integers, Sequences, FiniteSets, TLC

VARIABLES pc, goarch, reverse, vals, buf, how, snap, ret, outs, req

vars == <<pc, goarch, reverse, vals, buf, how, snap, ret, outs, req>>

(***************************************************************************)
(* Program constants                                                       *)
(***************************************************************************)
encGroupSize == 8
encMarker == 255
encPad == 0

(***************************************************************************)
(* Bounds of the model                                                     *)
(***************************************************************************)
MaxLen == 8
MaxDiverge == 2
MaxVals == 3
MaxCap == 12
MaxBuf == 3
MaxCompact == 3

\* The payload bytes the inputs are built from: the pad value and its
\* complement, which is also the marker value.
DataBytes == {0, 255}

\* The architectures the build may target: two with the word-at-a-time
\* path (8- and 4-byte words) and one without.
GOARCHS == {"amd64", "386", "arm64"}

(***************************************************************************)
(* Sequences of bytes                                                      *)
(***************************************************************************)
RECURSIVE SeqsOfLen(_, _)
SeqsOfLen(S, n) ==
    IF n = 0 THEN {<<>>}
    ELSE {Append(s, x) : s \in SeqsOfLen(S, n - 1), x \in S}

SeqsUpTo(S, n) == UNION {SeqsOfLen(S, k) : k \in 0..n}

Zeros(n) == [i \in 1..n |-> 0]

\* bytes.Compare: -1, 0 or +1 by bytewise lexicographic order.
RECURSIVE compareBytes(_, _)
compareBytes(x, y) ==
    IF x = <<>> /\ y = <<>> THEN 0
    ELSE IF x = <<>> THEN -1
    ELSE IF y = <<>> THEN 1
    ELSE IF Head(x) < Head(y) THEN -1
    ELSE IF Head(x) > Head(y) THEN 1
    ELSE compareBytes(Tail(x), Tail(y))

(***************************************************************************)
(* Slices                                                                  *)
(***************************************************************************)
\* The nil slice: no backing array, length and capacity 0.
NilSlice == [arr |-> 0, bytes |-> <<>>, cap |-> 0]

\* make([]byte, len, cap) followed by copy: a fresh backing array.
MakeCopy(b, c) == [arr |-> b.arr + 1, bytes |-> b.bytes, cap |-> c]

\* The capacity append chooses when the backing array is too small
\* (doubling, or the needed length when that is larger).
GrowCap(old, need) == IF need > 2 * old THEN need ELSE 2 * old

\* append(s, xs...): in place while the capacity allows, else a new array.
AppendBytes(s, xs) ==
    LET need == Len(s.bytes) + Len(xs)
    IN  IF need <= s.cap
        THEN [s EXCEPT !.bytes = @ \o xs]
        ELSE [arr |-> s.arr + 1, bytes |-> s.bytes \o xs,
              cap |-> GrowCap(s.cap, need)]

(***************************************************************************)
(* reallocBytes                                                            *)
(***************************************************************************)
\* reallocBytes without the copy of the old contents.
reallocBytesNoCopy(b, n) ==
    IF b.cap < n
    THEN [arr |-> b.arr + 1, bytes |-> Zeros(Len(b.bytes)),
          cap |-> Len(b.bytes) + n]
    ELSE b

reallocBytes(b, n) ==
    IF b.cap < n
    THEN MakeCopy(b, Len(b.bytes) + n)
    ELSE b

(***************************************************************************)
(* reverseBytes: bitwise complement of a byte range                        *)
(***************************************************************************)
wordSize(arch) == IF arch = "386" THEN 4 ELSE 8

supportsUnaligned(arch) == arch \in {"386", "amd64"}

\* ^b for a byte.
Not8(x) == 255 - x

safeReverseBytes(b) == [i \in 1..Len(b) |-> Not8(b[i])]

\* fastReverseBytes without the byte loop for what follows the whole words.
fastReverseBytesNoTail(b, arch) ==
    LET n == Len(b)
        w == n \div wordSize(arch)
    IN  [i \in 1..n |->
           IF i <= w * wordSize(arch) THEN Not8(b[i]) ELSE b[i]]

\* The word loop complements the w whole words at the front (a word is
\* wordSize consecutive bytes, so ^word complements each of them); the
\* byte loop complements the rest.
fastReverseBytes(b, arch) ==
    LET n == Len(b)
        w == n \div wordSize(arch)
        afterWords == [i \in 1..n |->
                         IF i <= w * wordSize(arch) THEN Not8(b[i]) ELSE b[i]]
    IN  [i \in 1..n |->
           IF i > w * wordSize(arch) THEN Not8(afterWords[i])
           ELSE afterWords[i]]

reverseBytes(b, arch) ==
    IF supportsUnaligned(arch)
    THEN fastReverseBytes(b, arch)
    ELSE safeReverseBytes(b)

(***************************************************************************)
(* EncodeBytes, EncodeBytesDesc                                            *)
(***************************************************************************)
\* The loop of EncodeBytes with `idx < dLen` for `idx <= dLen`: no closing
\* group when the length is a multiple of encGroupSize.
RECURSIVE EncodeLoopStrict(_, _, _)
EncodeLoopStrict(result, data, idx) ==
    LET dLen == Len(data)
        remain == dLen - idx
        padCount == IF remain >= encGroupSize THEN 0 ELSE encGroupSize - remain
        grouped ==
            IF remain >= encGroupSize
            THEN AppendBytes(result, SubSeq(data, idx + 1, idx + encGroupSize))
            ELSE AppendBytes(AppendBytes(result, SubSeq(data, idx + 1, dLen)),
                             Zeros(padCount))
        marker == (encMarker - padCount) % 256
    IN  IF idx < dLen
        THEN EncodeLoopStrict(AppendBytes(grouped, <<marker>>), data,
                              idx + encGroupSize)
        ELSE result

\* The loop of EncodeBytes with the pad count left out of the marker.
RECURSIVE EncodeLoopPlainMarker(_, _, _)
EncodeLoopPlainMarker(result, data, idx) ==
    LET dLen == Len(data)
        remain == dLen - idx
        padCount == IF remain >= encGroupSize THEN 0 ELSE encGroupSize - remain
        grouped ==
            IF remain >= encGroupSize
            THEN AppendBytes(result, SubSeq(data, idx + 1, idx + encGroupSize))
            ELSE AppendBytes(AppendBytes(result, SubSeq(data, idx + 1, dLen)),
                             Zeros(padCount))
        marker == encMarker
    IN  IF idx <= dLen
        THEN EncodeLoopPlainMarker(AppendBytes(grouped, <<marker>>), data,
                                   idx + encGroupSize)
        ELSE result

\* One iteration of the loop of EncodeBytes at index idx, and the rest.
RECURSIVE EncodeLoop(_, _, _)
EncodeLoop(result, data, idx) ==
    LET dLen == Len(data)
        remain == dLen - idx
        padCount == IF remain >= encGroupSize THEN 0 ELSE encGroupSize - remain
        grouped ==
            IF remain >= encGroupSize
            THEN AppendBytes(result, SubSeq(data, idx + 1, idx + encGroupSize))
            ELSE AppendBytes(AppendBytes(result, SubSeq(data, idx + 1, dLen)),
                             Zeros(padCount))
        marker == (encMarker - padCount) % 256
    IN  IF idx <= dLen
        THEN EncodeLoop(AppendBytes(grouped, <<marker>>), data,
                        idx + encGroupSize)
        ELSE result

EncodeBytes(b, data) ==
    LET dLen == Len(data)
        reallocSize == ((dLen \div encGroupSize) + 1) * (encGroupSize + 1)
    IN  EncodeLoop(reallocBytes(b, reallocSize), data, 0)

\* EncodeBytesDesc complementing b[:n] for b[n:].
EncodeBytesDescWrongRange(b, data, arch) ==
    LET n == Len(b.bytes)
        e == EncodeBytes(b, data)
    IN  [e EXCEPT !.bytes =
            reverseBytes(SubSeq(e.bytes, 1, n), arch)
            \o SubSeq(e.bytes, n + 1, Len(e.bytes))]

EncodeBytesDesc(b, data, arch) ==
    LET n == Len(b.bytes)
        e == EncodeBytes(b, data)
    IN  [e EXCEPT !.bytes =
            SubSeq(e.bytes, 1, n)
            \o reverseBytes(SubSeq(e.bytes, n + 1, Len(e.bytes)), arch)]

(***************************************************************************)
(* decodeBytes, DecodeBytes, DecodeBytesDesc                               *)
(***************************************************************************)
\* The result of a decode: the remainder, the payload, the error ("nil" for
\* none) and mem, the bytes of the caller's buffer when the call returns.
\* A nil slice result is the empty sequence.
DecodeResult(r, d, e, m) == [rem |-> r, data |-> d, err |-> e, mem |-> m]

\* bytes.Count(s, []byte{c}).
CountByte(s, c) == Cardinality({i \in 1..Len(s) : s[i] = c})

\* return nil, nil, err: the payload gathered so far is dropped.
FailPartial(msg, data, mem) == DecodeResult(<<>>, data, msg, mem)

Fail(msg, data, mem) == DecodeResult(<<>>, <<>>, msg, mem)

\* The check of the padding bytes of a final group.
PaddingOKLax(group, realGroupSize, padCount) ==
    CountByte(SubSeq(group, realGroupSize + 1, encGroupSize), encPad)
        <= padCount

PaddingOK(group, realGroupSize, padCount) ==
    CountByte(SubSeq(group, realGroupSize + 1, encGroupSize), encPad)
        = padCount

\* The loop of decodeBytes.  mem is the caller's buffer, off the number of
\* bytes of it already consumed (b is mem[off:]), data the payload so far.
\* reverseBytes works in place on b[:encGroupSize+1], a part of mem.
RECURSIVE DecodeLoop(_, _, _, _, _)
DecodeLoop(mem, off, data, rev, arch) ==
    IF Len(mem) - off < encGroupSize + 1
    THEN Fail("insufficient bytes", data, mem)
    ELSE
      LET raw == SubSeq(mem, off + 1, off + encGroupSize + 1)
          groupBytes == IF rev THEN reverseBytes(raw, arch) ELSE raw
          mem2 == SubSeq(mem, 1, off) \o groupBytes
                  \o SubSeq(mem, off + encGroupSize + 2, Len(mem))
          group == SubSeq(groupBytes, 1, encGroupSize)
          marker == groupBytes[encGroupSize + 1]
          padCount == (encMarker - marker) % 256
          realGroupSize == (encGroupSize - padCount) % 256
          off2 == off + encGroupSize + 1
      IN  IF padCount > encGroupSize
          THEN Fail("invalid marker", data, mem2)
          ELSE
            LET data2 == data \o SubSeq(group, 1, realGroupSize)
            IN  IF marker # encMarker
                THEN IF ~PaddingOK(group, realGroupSize, padCount)
                     THEN Fail("invalid padding", data2, mem2)
                     ELSE DecodeResult(SubSeq(mem2, off2 + 1, Len(mem2)),
                                       data2, "nil", mem2)
                ELSE DecodeLoop(mem2, off2, data2, rev, arch)

decodeBytes(b, rev, arch) == DecodeLoop(b, 0, <<>>, rev, arch)

DecodeBytes(b, arch) == decodeBytes(b, FALSE, arch)

DecodeBytesDesc(b, arch) == decodeBytes(b, TRUE, arch)

(***************************************************************************)
(* DecodeVarint (number.go, outside this file): a signed 64-bit integer    *)
(* read from a byte prefix, as encoding/binary reads it: little-endian     *)
(* base-128 digits with a continuation bit, zig-zag signed.                *)
(***************************************************************************)
RECURSIVE Pow2(_)
Pow2(n) == IF n = 0 THEN 1 ELSE 2 * Pow2(n - 1)

\* binary.Uvarint from byte i on: the value and the number of bytes read
\* (0: the buffer ended early; negative: more than 64 bits).
RECURSIVE Uvarint(_, _, _, _)
Uvarint(b, i, x, s) ==
    IF i > Len(b) THEN [val |-> 0, n |-> 0]
    ELSE IF b[i] < 128
    THEN IF i - 1 > 9 \/ (i - 1 = 9 /\ b[i] > 1)
         THEN [val |-> 0, n |-> -i]
         ELSE [val |-> x + b[i] * Pow2(s), n |-> i]
    ELSE Uvarint(b, i + 1, x + (b[i] % 128) * Pow2(s), s + 7)

DecodeVarint(b) ==
    LET u == Uvarint(b, 1, 0, 0)
        v == IF u.val % 2 = 0 THEN u.val \div 2 ELSE -(u.val \div 2) - 1
    IN  IF u.n > 0
        THEN [rem |-> SubSeq(b, u.n + 1, Len(b)), val |-> v, err |-> "nil"]
        ELSE IF u.n < 0
        THEN [rem |-> <<>>, val |-> 0, err |-> "value larger than 64 bits"]
        ELSE [rem |-> <<>>, val |-> 0, err |-> "insufficient bytes"]

(***************************************************************************)
(* DecodeCompactBytes                                                      *)
(***************************************************************************)
\* make([]byte, int(n)) with a negative n panics at run time: the call
\* returns nothing, which the result records as the error "panic".
DecodeCompactBytes(b) ==
    LET v == DecodeVarint(b)
        n == v.val
    IN  IF v.err # "nil"
        THEN [rem |-> <<>>, data |-> <<>>, err |-> v.err]
        ELSE IF Len(v.rem) < n
        THEN [rem |-> <<>>, data |-> <<>>, err |-> "insufficient bytes"]
        ELSE IF n < 0
        THEN [rem |-> <<>>, data |-> <<>>, err |-> "panic"]
        ELSE [rem |-> SubSeq(v.rem, n + 1, Len(v.rem)),
              data |-> SubSeq(v.rem, 1, n), err |-> "nil"]

(***************************************************************************)
(* The codec in use: a caller encodes a payload into an empty buffer, the  *)
(* buffer is then left intact, cut short, extended by further bytes or     *)
(* damaged in one byte, and is decoded.                                    *)
(***************************************************************************)
\* No call has returned yet.
NoResult == [rem |-> <<>>, data |-> <<>>, err |-> "none"]

\* The values a damaged byte takes: closed under complement, so that the
\* ascending and the descending form meet the same damage: a non-zero pad
\* byte, a changed data byte, the markers of 8 and of 0 pad bytes, and
\* markers out of range (0 and 8 ascending, 255 and 247 descending).
CorruptBytes == {0, 8, 247, 255}

\* The bytes that may follow an encoded value in the buffer.
Tails == SeqsUpTo(DataBytes, 2) \ {<<>>}

InitCodec ==
    /\ pc = "start"
    /\ goarch \in GOARCHS
    /\ reverse \in BOOLEAN
    /\ vals \in {<<d>> : d \in SeqsUpTo(DataBytes, MaxLen)}
    /\ buf = NilSlice
    /\ how = "intact"
    /\ snap = <<>>
    /\ ret = NoResult
    /\ outs = <<>>
    /\ req = 0

\* EncodeBytes(nil, d) or EncodeBytesDesc(nil, d).
Encode ==
    /\ pc = "start"
    /\ buf' = IF reverse
              THEN EncodeBytesDesc(buf, vals[1], goarch)
              ELSE EncodeBytes(buf, vals[1])
    /\ pc' = "encoded"
    /\ UNCHANGED <<goarch, reverse, vals, how, snap, ret, outs, req>>

\* The caller keeps only a proper prefix b[:k] of the encoded value.
Truncate ==
    /\ pc = "encoded"
    /\ \E k \in 0..(Len(buf.bytes) - 1) :
          buf' = [buf EXCEPT !.bytes = SubSeq(@, 1, k)]
    /\ how' = "truncated"
    /\ pc' = "ready"
    /\ UNCHANGED <<goarch, reverse, vals, snap, ret, outs, req>>

\* Further bytes follow the encoded value.
Extend ==
    /\ pc = "encoded"
    /\ \E t \in Tails : buf' = AppendBytes(buf, t)
    /\ how' = "extended"
    /\ pc' = "ready"
    /\ UNCHANGED <<goarch, reverse, vals, snap, ret, outs, req>>

\* One byte of the encoded value is overwritten.
Corrupt ==
    /\ pc = "encoded"
    /\ \E i \in 1..Len(buf.bytes), v \in CorruptBytes :
          /\ buf.bytes[i] # v
          /\ buf' = [buf EXCEPT !.bytes[i] = v]
    /\ how' = "corrupted"
    /\ pc' = "ready"
    /\ UNCHANGED <<goarch, reverse, vals, snap, ret, outs, req>>

\* The encoded value is handed to the decoder as it is.
Keep ==
    /\ pc = "encoded"
    /\ pc' = "ready"
    /\ UNCHANGED <<goarch, reverse, vals, buf, how, snap, ret, outs, req>>

\* DecodeBytes(buf) or DecodeBytesDesc(buf); snap is the buffer as it was
\* handed over, buf the buffer as the call leaves it.
Decode ==
    /\ pc = "ready"
    /\ LET r == decodeBytes(buf.bytes, reverse, goarch)
       IN  /\ ret' = [rem |-> r.rem, data |-> r.data, err |-> r.err]
           /\ buf' = [buf EXCEPT !.bytes = r.mem]
    /\ snap' = buf.bytes
    /\ pc' = "decoded"
    /\ UNCHANGED <<goarch, reverse, vals, how, outs, req>>

NextCodec ==
    \/ Encode
    \/ Truncate
    \/ Extend
    \/ Corrupt
    \/ Keep
    \/ Decode

SpecCodec == InitCodec /\ [][NextCodec]_vars

\* The ascending encoding of a payload into an empty buffer.
Enc(d) == EncodeBytes(NilSlice, d).bytes

\* A decode that returned the payload d, the remainder r and no error.
Returned(r, d) == ret = [rem |-> r, data |-> d, err |-> "nil"]

\* A decode that returned the error msg, and neither payload nor remainder.
Rejected(msg) == ret = [rem |-> <<>>, data |-> <<>>, err |-> msg]

(* C2: round trip, ascending.  Decoding with DecodeBytes the buffer that
   EncodeBytes(nil, d) returned gives an empty remainder, the payload d and
   no error, for every payload d. *)
RoundTripAsc ==
    (pc = "decoded" /\ ~reverse /\ how = "intact") => Returned(<<>>, vals[1])

\* A payload of exactly one full group has been encoded (two groups) and
\* decoded back.
RoundTripAscWitness ==
    /\ pc = "decoded" /\ ~reverse /\ how = "intact"
    /\ Len(vals[1]) = encGroupSize
    /\ Len(snap) = 2 * (encGroupSize + 1)
    /\ ret.data = vals[1]

(* C4: round trip, descending.  Decoding with DecodeBytesDesc the buffer
   that EncodeBytesDesc(nil, d) returned gives an empty remainder, the
   payload d and no error, for every payload d. *)
RoundTripDesc ==
    (pc = "decoded" /\ reverse /\ how = "intact") => Returned(<<>>, vals[1])

\* A non-empty payload ending in a zero byte went through the descending
\* round trip on the word-at-a-time path.
RoundTripDescWitness ==
    /\ pc = "decoded" /\ reverse /\ how = "intact"
    /\ supportsUnaligned(goarch)
    /\ vals[1] # <<>>
    /\ vals[1][Len(vals[1])] = 0
    /\ snap = safeReverseBytes(Enc(vals[1]))
    /\ ret.data = vals[1]

(* C7: truncation rejection.  DecodeBytes on any proper prefix of
   EncodeBytes(nil, d) returns the "insufficient bytes" error, and neither a
   payload nor a remainder. *)
TruncationRejected ==
    (pc = "decoded" /\ ~reverse /\ how = "truncated")
        => Rejected("insufficient bytes")

\* A two-group value cut exactly on the boundary after its first group was
\* rejected.
TruncationRejectedWitness ==
    /\ pc = "decoded" /\ ~reverse /\ how = "truncated"
    /\ Len(vals[1]) = encGroupSize
    /\ Len(snap) = encGroupSize + 1
    /\ ret.err = "insufficient bytes"

(* C9: decoding is read-only on its input.  When DecodeBytesDesc(b) has
   returned, with a payload or with an error, every byte of the caller's
   buffer b is as it was before the call, and decoding the same buffer once
   more returns the same result. *)
DecodeDescReadOnly ==
    (pc = "decoded" /\ reverse)
        => /\ buf.bytes = snap
           /\ LET again == DecodeBytesDesc(buf.bytes, goarch)
              IN  ret = [rem |-> again.rem, data |-> again.data,
                         err |-> again.err]

(* C10: canonical acceptance.  When DecodeBytes(b) succeeds with payload d
   and remainder r, b is EncodeBytes(nil, d) followed by r; a buffer of
   fewer than encGroupSize+1 bytes, and one whose first marker is below
   encMarker - encGroupSize, is rejected. *)
CanonicalAcceptance ==
    (pc = "decoded" /\ ~reverse)
        => /\ ret.err = "nil" => snap = Enc(ret.data) \o ret.rem
           /\ Len(snap) < encGroupSize + 1 => ret.err # "nil"
           /\ (Len(snap) >= encGroupSize + 1
               /\ snap[encGroupSize + 1] < encMarker - encGroupSize)
                  => ret.err # "nil"

\* A damaged buffer was accepted as another payload than the one encoded,
\* with a remainder left over.
CanonicalAcceptanceWitness ==
    /\ pc = "decoded" /\ ~reverse /\ how = "corrupted"
    /\ ret.err = "nil"
    /\ ret.data # vals[1]
    /\ ret.rem # <<>>

(***************************************************************************)
(* Comparison of encoded values: two payloads are encoded, each into an    *)
(* empty buffer, ascending and descending.  The second payload shares a    *)
(* prefix with the first and goes on with up to MaxDiverge bytes of its    *)
(* own, so that it is a prefix of the first, an extension of it, or        *)
(* differs from it at any position.                                        *)
(***************************************************************************)
InitOrder ==
    /\ pc = "start"
    /\ goarch \in GOARCHS
    /\ reverse = FALSE
    /\ \E a \in SeqsUpTo(DataBytes, MaxLen) :
         \E k \in 0..Len(a), t \in SeqsUpTo(DataBytes, MaxDiverge) :
            vals = <<a, SubSeq(a, 1, k) \o t>>
    /\ buf = NilSlice
    /\ how = "intact"
    /\ snap = <<>>
    /\ ret = NoResult
    /\ outs = <<>>
    /\ req = 0

\* outs: EncodeBytes(nil, a), EncodeBytes(nil, b), EncodeBytesDesc(nil, a),
\* EncodeBytesDesc(nil, b).
EncodePair ==
    /\ pc = "start"
    /\ outs' = << EncodeBytes(NilSlice, vals[1]).bytes,
                  EncodeBytes(NilSlice, vals[2]).bytes,
                  EncodeBytesDesc(NilSlice, vals[1], goarch).bytes,
                  EncodeBytesDesc(NilSlice, vals[2], goarch).bytes >>
    /\ pc' = "encoded"
    /\ UNCHANGED <<goarch, reverse, vals, buf, how, snap, ret, req>>

NextOrder == EncodePair

SpecOrder == InitOrder /\ [][NextOrder]_vars

(* C1: order preservation, ascending.  For all payloads a and b, comparing
   EncodeBytes(nil, a) with EncodeBytes(nil, b) bytewise gives the same sign
   as comparing a with b. *)
OrderPreserved ==
    pc = "encoded"
        => compareBytes(outs[1], outs[2]) = compareBytes(vals[1], vals[2])

\* A payload of one full group was compared with itself followed by a zero
\* byte: a proper prefix, a trailing zero, and a length that is a multiple
\* of the group size.
OrderPreservedWitness ==
    /\ pc = "encoded"
    /\ Len(vals[1]) = encGroupSize
    /\ vals[2] = vals[1] \o <<0>>
    /\ compareBytes(outs[1], outs[2]) = -1

(* C3: order reversal, descending.  For all payloads a and b, comparing
   EncodeBytesDesc(nil, a) with EncodeBytesDesc(nil, b) bytewise gives the
   negation of comparing a with b. *)
OrderReversed ==
    pc = "encoded"
        => compareBytes(outs[3], outs[4]) = -compareBytes(vals[1], vals[2])

\* A payload sorts before its extension by a byte, and its descending
\* encoding sorts after that of the extension.
OrderReversedWitness ==
    /\ pc = "encoded"
    /\ supportsUnaligned(goarch)
    /\ vals[1] # <<>>
    /\ vals[2] = vals[1] \o <<255>>
    /\ compareBytes(vals[1], vals[2]) = -1
    /\ compareBytes(outs[3], outs[4]) = 1

(***************************************************************************)
(* Framing: values are appended one after the other to the same buffer     *)
(* with EncodeBytes and then decoded from the front with DecodeBytes, each *)
(* decode reading the remainder the one before returned.                   *)
(***************************************************************************)
\* The payload lengths around the group size.
FrameLens == {0, 1, encGroupSize - 1, encGroupSize, encGroupSize + 1}

FrameValues == {[i \in 1..k |-> c] : k \in FrameLens, c \in DataBytes}

\* The buffer starts as make([]byte, 0, c).
InitFraming ==
    /\ pc = "append"
    /\ goarch \in GOARCHS
    /\ reverse = FALSE
    /\ vals = <<>>
    /\ buf \in {[arr |-> 0, bytes |-> <<>>, cap |-> c] : c \in {0, MaxCap}}
    /\ how = "intact"
    /\ snap = <<>>
    /\ ret = NoResult
    /\ outs = <<>>
    /\ req = 0

\* buf = EncodeBytes(buf, v); snap is the buffer as it was before the call.
AppendValue ==
    /\ pc = "append"
    /\ Len(vals) < MaxVals
    /\ \E v \in FrameValues :
          /\ buf' = EncodeBytes(buf, v)
          /\ vals' = Append(vals, v)
    /\ snap' = buf.bytes
    /\ UNCHANGED <<pc, goarch, reverse, how, ret, outs, req>>

\* The reader takes the whole buffer.
StartDecode ==
    /\ pc = "append"
    /\ vals # <<>>
    /\ ret' = [rem |-> buf.bytes, data |-> <<>>, err |-> "nil"]
    /\ pc' = "decode"
    /\ UNCHANGED <<goarch, reverse, vals, buf, how, snap, outs, req>>

\* rem, v, err = DecodeBytes(rem); outs gathers the payloads returned.
DecodeNext ==
    /\ pc = "decode"
    /\ Len(outs) < Len(vals)
    /\ LET r == DecodeBytes(ret.rem, goarch)
       IN  /\ ret' = [rem |-> r.rem, data |-> r.data, err |-> r.err]
           /\ outs' = Append(outs, r.data)
    /\ UNCHANGED <<pc, goarch, reverse, vals, buf, how, snap, req>>

NextFraming ==
    \/ AppendValue
    \/ StartDecode
    \/ DecodeNext

SpecFraming == InitFraming /\ [][NextFraming]_vars

(* C5: framing.  Values v1..vk appended in turn with EncodeBytes to one
   buffer that starts empty, then decoded with k calls of DecodeBytes, each
   on the remainder of the one before, come back as v1..vk in order with no
   error, and the remainder after the k-th decode is empty; each encode
   leaves the bytes already in the buffer as they were. *)
FramingRecovers ==
    /\ pc = "append"
          => /\ Len(buf.bytes) >= Len(snap)
             /\ SubSeq(buf.bytes, 1, Len(snap)) = snap
    /\ pc = "decode"
          => /\ ret.err = "nil"
             /\ outs = SubSeq(vals, 1, Len(outs))
             /\ Len(outs) = Len(vals) => ret.rem = <<>>

\* Three values, a two-group one in the middle of them, were appended (the
\* buffer had to be reallocated by reallocBytes on the way) and all three
\* decoded back.
FramingRecoversWitness ==
    /\ pc = "decode"
    /\ Len(vals) = 3
    /\ Len(vals[1]) = 1
    /\ Len(vals[2]) = encGroupSize
    /\ vals[3] = <<>>
    /\ outs = vals
    /\ ret.rem = <<>>

(***************************************************************************)
(* reallocBytes on its own: a buffer of some length and capacity, and a    *)
(* number of further bytes asked for.                                      *)
(***************************************************************************)
InitRealloc ==
    /\ pc = "start"
    /\ goarch \in GOARCHS
    /\ reverse = FALSE
    /\ vals = <<>>
    /\ \E bs \in SeqsUpTo(DataBytes, MaxBuf) :
         \E c \in Len(bs)..MaxCap :
            buf = [arr |-> 0, bytes |-> bs, cap |-> c]
    /\ how = "intact"
    /\ snap = <<>>
    /\ ret = NoResult
    /\ outs = <<>>
    /\ req \in 0..MaxCap

\* outs = <<reallocBytes(buf, req)>>.
Realloc ==
    /\ pc = "start"
    /\ outs' = <<reallocBytes(buf, req)>>
    /\ pc' = "grown"
    /\ UNCHANGED <<goarch, reverse, vals, buf, how, snap, ret, req>>

NextRealloc == Realloc

SpecRealloc == InitRealloc /\ [][NextRealloc]_vars

(* C8: buffer growth.  For a buffer b of length L and capacity C >= L and
   n >= 0, reallocBytes(b, n) returns a buffer of length L whose bytes are
   those of b and whose capacity is at least L + n; it returns b itself only
   when C >= L + n. *)
ReallocGrows ==
    pc = "grown"
        => /\ outs[1].bytes = buf.bytes
           /\ outs[1].cap >= Len(buf.bytes) + req
           /\ outs[1].arr = buf.arr => buf.cap >= Len(buf.bytes) + req

(***************************************************************************)
(* DecodeCompactBytes on the buffers a caller may hand it.                 *)
(***************************************************************************)
\* Length prefixes of 0, -1, 1, -2, 2 and 3, and bytes with the
\* continuation bit set.
CompactBytes == {0, 1, 2, 3, 4, 6, 128, 255}

InitCompact ==
    /\ pc = "ready"
    /\ goarch \in GOARCHS
    /\ reverse = FALSE
    /\ vals = <<>>
    /\ \E bs \in SeqsUpTo(CompactBytes, MaxCompact) :
          buf = [arr |-> 0, bytes |-> bs, cap |-> Len(bs)]
    /\ how = "intact"
    /\ snap = <<>>
    /\ ret = NoResult
    /\ outs = <<>>
    /\ req = 0

\* rem, data, err = DecodeCompactBytes(buf).
DecodeCompact ==
    /\ pc = "ready"
    /\ ret' = DecodeCompactBytes(buf.bytes)
    /\ snap' = buf.bytes
    /\ pc' = "decoded"
    /\ UNCHANGED <<goarch, reverse, vals, buf, how, outs, req>>

NextCompact == DecodeCompact

SpecCompact == InitCompact /\ [][NextCompact]_vars

(* C6: DecodeCompactBytes returns the "insufficient bytes" error, and no
   payload, whenever the length n read from the varint prefix is negative
   or greater than the number of bytes left after the prefix. *)
CompactRejectsBadLength ==
    (pc = "decoded" /\ DecodeVarint(snap).err = "nil"
       /\ (DecodeVarint(snap).val < 0
           \/ DecodeVarint(snap).val > Len(DecodeVarint(snap).rem)))
        => ret = [rem |-> <<>>, data |-> <<>>, err |-> "insufficient bytes"]

=============================================================================
